---- MODULE Spec2Model ----
(***************************************************************************)
(* Model of the knowledge Store (rag_store.py: RAGStore), the Context      *)
(* Assembler (rag_store.py: ContextAssembler) and the candidate-token      *)
(* normaliser (candidate_extractor.py: normalize_tokens).                  *)
(*                                                                         *)
(* Text on which the code works character by character (synonyms, cues,    *)
(* page tokens, lexicon variants, card identifiers, raw model output) is a *)
(* sequence of one-character strings, so that strip(), lower(), split and  *)
(* the substring test are computed, not assumed.  Field names, which the   *)
(* code only compares as wholes, are TLA+ strings.                         *)
(***************************************************************************)
EXTENDS Integers, Sequences, FiniteSets, TLC

VARIABLES fs, store, ret, edits

vars == <<fs, store, ret, edits>>

(***************************************************************************)
(* Bounds of the model.                                                    *)
(***************************************************************************)
\* longest raw text handed to normalize_tokens
MaxLen == 4
\* most lines of the field-card file
MaxLines == 2
\* most changes made to the files on disk in one behaviour
MaxEdits == 2
\* largest top_k / meds_top_k handed to slice_lexicon / build_context
MaxTopK == 2

(***************************************************************************)
(* Python str operations.                                                  *)
(***************************************************************************)
\* str.lower() on one character
LowerChar(c) ==
  CASE c = "A" -> "a"
    [] c = "H" -> "h"
    [] c = "L" -> "l"
    [] c = "T" -> "t"
    [] c = "Z" -> "z"
    [] OTHER -> c

\* str.lower()
lower(s) == [i \in 1..Len(s) |-> LowerChar(s[i])]

\* the characters str.strip() with no argument removes, and \s of re
IsSpace(c) == c \in {" ", "\t", "\n"}

RECURSIVE lstrip(_, _)
\* str.lstrip(chars): drop the leading characters that are in cs
lstrip(s, cs) ==
  IF s # <<>> /\ Head(s) \in cs THEN lstrip(Tail(s), cs) ELSE s

RECURSIVE rstrip(_, _)
\* str.rstrip(chars): drop the trailing characters that are in cs
rstrip(s, cs) ==
  IF s # <<>> /\ s[Len(s)] \in cs THEN rstrip(SubSeq(s, 1, Len(s) - 1), cs) ELSE s

\* str.strip(chars)
strip_chars(s, cs) == rstrip(lstrip(s, cs), cs)

\* str.strip()
strip(s) == strip_chars(s, {" ", "\t", "\n"})

\* the `in` test of two strings: sub occurs in s as a contiguous run
Contains(sub, s) ==
  \E i \in 0..(Len(s) - Len(sub)) : SubSeq(s, i + 1, i + Len(sub)) = sub

\* list[:k] for k >= 0
Take(xs, k) == SubSeq(xs, 1, IF k < Len(xs) THEN k ELSE Len(xs))

(***************************************************************************)
(* candidate_extractor.py                                                  *)
(***************************************************************************)
\* the characters of the class [,;\n] the raw text is split on
Separators == {",", ";", "\n"}

\* the ASCII characters of the argument of the second strip, dash and asterisk
\* (its other characters are outside the alphabet of the model)
BulletChars == {"-", "*"}

RECURSIVE re_split(_, _, _)
\* re.split(r"[,;\n]+", raw): cur is the part being read, inSep whether the
\* previous character was a separator; a run of separators splits once, and a
\* leading or trailing separator yields an empty part
re_split(s, cur, inSep) ==
  IF s = <<>> THEN <<cur>>
  ELSE IF Head(s) \in Separators
       THEN IF inSep THEN re_split(Tail(s), cur, TRUE)
            ELSE <<cur>> \o re_split(Tail(s), <<>>, TRUE)
       ELSE re_split(Tail(s), Append(cur, Head(s)), FALSE)

RECURSIVE collapse_ws(_, _)
\* re.sub(r"\s+", " ", p): every run of whitespace becomes one space
collapse_ws(s, inWs) ==
  IF s = <<>> THEN <<>>
  ELSE IF IsSpace(Head(s))
       THEN IF inWs THEN collapse_ws(Tail(s), TRUE)
            ELSE <<" ">> \o collapse_ws(Tail(s), TRUE)
       ELSE <<Head(s)>> \o collapse_ws(Tail(s), FALSE)

RECURSIVE clean_parts(_)
\* the first loop of normalize_tokens: parts that are empty after the two
\* strips are skipped, before the whitespace runs are collapsed
clean_parts(parts) ==
  IF parts = <<>> THEN <<>>
  ELSE LET p == lower(strip_chars(strip(Head(parts)), BulletChars))
       IN  IF p = <<>> THEN clean_parts(Tail(parts))
           ELSE <<collapse_ws(p, FALSE)>> \o clean_parts(Tail(parts))

RECURSIVE dedupe(_, _)
\* the second loop of normalize_tokens: first occurrence kept, order kept
dedupe(toks, seen) ==
  IF toks = <<>> THEN <<>>
  ELSE IF Head(toks) \in seen THEN dedupe(Tail(toks), seen)
       ELSE <<Head(toks)>> \o dedupe(Tail(toks), seen \cup {Head(toks)})

\* normalize_tokens(raw)
normalize_tokens(raw) == dedupe(clean_parts(re_split(raw, <<>>, FALSE)), {})

RECURSIVE join(_, _)
\* sep.join(toks)
join(toks, sep) ==
  IF toks = <<>> THEN <<>>
  ELSE IF Len(toks) = 1 THEN Head(toks)
       ELSE Head(toks) \o sep \o join(Tail(toks), sep)

(***************************************************************************)
(* Python dict: an ordered mapping, kept as the sequence of its items in   *)
(* insertion order (the order in which the code iterates over it).         *)
(***************************************************************************)
EmptyDict == <<>>

DictKeys(d) == {d[i].k : i \in 1..Len(d)}

\* key in d
DictHas(d, k) == \E i \in 1..Len(d) : d[i].k = k

\* d[key], for a key of d
DictGet(d, k) == d[CHOOSE i \in 1..Len(d) : d[i].k = k].v

\* d[key] = value: an existing key keeps its position, a new key goes last
DictPut(d, k, v) ==
  IF DictHas(d, k)
  THEN [i \in 1..Len(d) |-> IF d[i].k = k THEN [k |-> k, v |-> v] ELSE d[i]]
  ELSE Append(d, [k |-> k, v |-> v])

\* the value of an attribute that a record does not have (card.get(...) is None)
None == <<"<None>">>

(***************************************************************************)
(* The files on disk.                                                      *)
(*                                                                         *)
(* A line of the field-card file is                                        *)
(*   text   "blank"   only whitespace                                      *)
(*          "invalid" not JSON                                             *)
(*          "scalar"  JSON, but a number (not an object)                   *)
(*          "object"  a JSON object, with                                  *)
(*   has_name, canonical_name   the attribute canonical_name               *)
(*   syn      "missing" no attribute synonyms, "list" a list of strings,   *)
(*            "number"  a number                                           *)
(*   synonyms the list of synonyms.                                        *)
(* A file of a card directory is                                           *)
(*   json     "absent" no such file, "invalid" not JSON, "array" a JSON    *)
(*            list, "object" a JSON object, with                           *)
(*   has_id, card_id        the attribute card_id                          *)
(*   has_entries, entries   the attribute entries (lexicon cards)          *)
(*   note     any other content of the card ("" when there is none).       *)
(***************************************************************************)
DirNames == {"policy", "abbr", "range", "lexicon"}

Line(text, has_name, name, syn, synonyms) ==
  [text |-> text, has_name |-> has_name, canonical_name |-> name,
   syn |-> syn, synonyms |-> synonyms]

CardFile(json, has_id, card_id, has_entries, entries, note) ==
  [json |-> json, has_id |-> has_id, card_id |-> card_id,
   has_entries |-> has_entries, entries |-> entries, note |-> note]

Absent == CardFile("absent", FALSE, <<>>, FALSE, <<>>, "")

\* bool(card) is False: the card is the empty object
IsEmptyObject(card) == ~card.has_id /\ ~card.has_entries /\ card.note = ""

(***************************************************************************)
(* RAGStore._load_field_cards, lines 50-69: the loop over the lines, from  *)
(* cleared indices.  st = [by_name, by_syn, raised]; an exception ends the *)
(* loop and leaves what the earlier lines and this line already stored.    *)
(***************************************************************************)
RECURSIVE add_synonyms(_, _, _)
\* lines 65-69: the loop over the synonyms of one card
add_synonyms(by_syn, syns, name) ==
  IF syns = <<>> THEN by_syn
  ELSE LET s == lower(strip(Head(syns)))
           next == IF s = <<>> THEN by_syn
                   ELSE IF s \in DOMAIN by_syn
                        THEN [by_syn EXCEPT ![s] = Append(@, name)]
                        ELSE [t \in DOMAIN by_syn \cup {s} |->
                                IF t = s THEN <<name>> ELSE by_syn[t]]
       IN  add_synonyms(next, Tail(syns), name)

\* lines 54-69: one line of the file
load_line(st, line) ==
  IF line.text \in {"blank", "invalid"} THEN st
  ELSE IF line.text = "scalar" THEN [st EXCEPT !.raised = "AttributeError"]
  ELSE IF ~line.has_name \/ line.canonical_name = "" THEN st
  ELSE LET name == line.canonical_name
           named == [n \in DOMAIN st.by_name \cup {name} |->
                       IF n = name THEN line ELSE st.by_name[n]]
       IN  CASE line.syn = "missing" -> [st EXCEPT !.by_name = named]
             [] line.syn = "number" ->
                  [st EXCEPT !.by_name = named, !.raised = "TypeError"]
             [] OTHER ->
                  [st EXCEPT !.by_name = named,
                             !.by_syn = add_synonyms(st.by_syn, line.synonyms, name)]

RECURSIVE load_lines(_, _)
load_lines(st, lines) ==
  IF lines = <<>> \/ st.raised # "none" THEN st
  ELSE load_lines(load_line(st, Head(lines)), Tail(lines))

EmptyFn == [x \in {} |-> x]

\* _load_field_cards(path) for a file that exists
load_field_cards(lines) ==
  load_lines([by_name |-> EmptyFn, by_syn |-> EmptyFn, raised |-> "none"], lines)

(***************************************************************************)
(* RAGStore._load_dir, lines 71-80.  files maps the base name of each      *)
(* *.json file to its content; order is the order in which glob yields     *)
(* the files, which the code does not control.                             *)
(***************************************************************************)
\* lines 75-80: one file
load_file(into, stem, file) ==
  IF file.json # "object" THEN into
  ELSE DictPut(into, IF file.has_id THEN file.card_id ELSE stem, file)

RECURSIVE load_dir(_, _, _)
load_dir(dir, order, into) ==
  IF ~dir.exists \/ order = <<>> THEN into
  ELSE load_dir(dir, Tail(order), load_file(into, Head(order), dir.files[Head(order)]))

\* the orders in which glob may yield the files of a directory
GlobOrders(dir) ==
  LET present == {s \in DOMAIN dir.files : dir.files[s].json # "absent"}
  IN  {o \in [1..Cardinality(present) -> present] :
         \A i, j \in 1..Cardinality(present) : i # j => o[i] # o[j]}

(***************************************************************************)
(* RAGStore: the read operations, lines 82-108.  st is the Store.          *)
(***************************************************************************)
EmptyStore ==
  [fields_by_name |-> EmptyFn, fields_by_synonym |-> EmptyFn,
   policy |-> EmptyDict, abbr |-> EmptyDict, ranges |-> EmptyDict,
   lexicons |-> EmptyDict]

RECURSIVE get_field_cards(_, _)
\* get_field_cards(names)
get_field_cards(st, names) ==
  IF names = <<>> THEN <<>>
  ELSE IF Head(names) \in DOMAIN st.fields_by_name
       THEN <<st.fields_by_name[Head(names)]>> \o get_field_cards(st, Tail(names))
       ELSE get_field_cards(st, Tail(names))

\* search_fields_by_synonyms(cues): the set whose list is returned
search_fields_by_synonyms(st, cues) ==
  UNION {{st.fields_by_synonym[key][j] : j \in 1..Len(st.fields_by_synonym[key])} :
           key \in {strip(lower(cues[i])) : i \in 1..Len(cues)}
                     \cap DOMAIN st.fields_by_synonym}

\* include_tokens / page_tokens: None, or a list of tokens
NoTokens == [is_none |-> TRUE, toks |-> <<>>]

Tokens(toks) == [is_none |-> FALSE, toks |-> toks]

\* line 104: any(v in toks for v in vs)
entry_matches(e, toks) ==
  \E i \in 1..Len(e.variants) : lower(e.variants[i]) \in toks

RECURSIVE matching_entries(_, _)
\* lines 101-105
matching_entries(entries, toks) ==
  IF entries = <<>> THEN <<>>
  ELSE IF entry_matches(Head(entries), toks)
       THEN <<Head(entries)>> \o matching_entries(Tail(entries), toks)
       ELSE matching_entries(Tail(entries), toks)

\* the result {} of slice_lexicon
EmptySlice == [empty |-> TRUE, card_id |-> None, entries |-> <<>>]

\* card.get("entries", [])
card_entries(card) == IF card.has_entries THEN card.entries ELSE <<>>

\* slice_lexicon without the fallback of lines 106-107: tokens that match no
\* entry give no entry
slice_lexicon_no_fallback(st, lexicon_key, include_tokens, top_k) ==
  IF ~DictHas(st.lexicons, lexicon_key) THEN EmptySlice
  ELSE LET card == DictGet(st.lexicons, lexicon_key)
           toks == {lower(include_tokens.toks[i]) : i \in 1..Len(include_tokens.toks)}
           entries == IF include_tokens.is_none \/ include_tokens.toks = <<>>
                      THEN Take(card_entries(card), top_k)
                      ELSE matching_entries(card_entries(card), toks)
       IN  IF IsEmptyObject(card) THEN EmptySlice
           ELSE [empty |-> FALSE,
                 card_id |-> IF card.has_id THEN card.card_id ELSE None,
                 entries |-> entries]

\* slice_lexicon(lexicon_key, include_tokens, top_k)
slice_lexicon(st, lexicon_key, include_tokens, top_k) ==
  IF ~DictHas(st.lexicons, lexicon_key) THEN EmptySlice
  ELSE LET card == DictGet(st.lexicons, lexicon_key)
           toks == {lower(include_tokens.toks[i]) : i \in 1..Len(include_tokens.toks)}
           found == matching_entries(card_entries(card), toks)
           entries == IF include_tokens.is_none \/ include_tokens.toks = <<>>
                      THEN Take(card_entries(card), top_k)
                      ELSE IF found = <<>> THEN Take(card_entries(card), top_k)
                           ELSE found
       IN  IF IsEmptyObject(card) THEN EmptySlice
           ELSE [empty |-> FALSE,
                 card_id |-> IF card.has_id THEN card.card_id ELSE None,
                 entries |-> entries]

(***************************************************************************)
(* ContextAssembler, lines 114-181.                                        *)
(***************************************************************************)
\* line 135: the field names that bring the medication lexicon in
MedsFields == {"treatment_history", "followup_visits", "treatment_followup_notes"}

\* line 124
EmptyPayload ==
  [field_cards |-> <<>>, policies |-> EmptyDict, abbr |-> EmptyDict,
   ranges |-> EmptyDict, lexicon |-> EmptyDict]

\* build_context with line 135 looking at the first target field only
build_context_first_field(st, target_fields, page_tokens, include_abbr, include_policies, include_ranges, meds_lexicon_key, meds_top_k) ==
  [field_cards |-> get_field_cards(st, target_fields),
   policies |-> IF include_policies THEN st.policy ELSE EmptyDict,
   abbr |-> IF include_abbr THEN st.abbr ELSE EmptyDict,
   ranges |-> IF include_ranges THEN st.ranges ELSE EmptyDict,
   lexicon |-> IF target_fields # <<>> /\ target_fields[1] \in MedsFields
               THEN DictPut(EmptyDict, meds_lexicon_key,
                            slice_lexicon(st, meds_lexicon_key, page_tokens, meds_top_k))
               ELSE EmptyDict]

\* build_context(target_fields, page_tokens, include_abbr, include_policies,
\*               include_ranges, meds_lexicon_key, meds_top_k)
build_context(st, target_fields, page_tokens, include_abbr, include_policies, include_ranges, meds_lexicon_key, meds_top_k) ==
  [field_cards |-> get_field_cards(st, target_fields),
   policies |-> IF include_policies THEN st.policy ELSE EmptyDict,
   abbr |-> IF include_abbr THEN st.abbr ELSE EmptyDict,
   ranges |-> IF include_ranges THEN st.ranges ELSE EmptyDict,
   lexicon |-> IF \E i \in 1..Len(target_fields) : target_fields[i] \in MedsFields
               THEN DictPut(EmptyDict, meds_lexicon_key,
                            slice_lexicon(st, meds_lexicon_key, page_tokens, meds_top_k))
               ELSE EmptyDict]

\* line 148: the synonyms kept of each field card
SynonymsKept == 8

\* line 159: the substrings that select a policy entry
PolicyTags ==
  {<<"n","o","t","a","t","i","o","n">>, <<"u","n","i","t","s">>, <<"d","a","t","e">>}

\* line 166: the substring that selects an abbreviation card
AbbrTag == <<"d","e","r","m","a","t","o","l","o","g","y">>

\* line 172: the substrings that select a range entry
RangeTags ==
  {<<"l","a","b","s">>, <<"s","c","o","r","a","d">>, <<"a","n","t","h","r","o">>}

RECURSIVE dict_filter(_, _)
\* the items of d whose key contains one of the tags, in the order of d
dict_filter(d, tags) ==
  IF d = <<>> THEN <<>>
  ELSE IF \E t \in tags : Contains(t, Head(d).k)
       THEN <<Head(d)>> \o dict_filter(Tail(d), tags)
       ELSE dict_filter(Tail(d), tags)

\* lines 145-153: a field card as it is put in the chunk
reduced_card(c) ==
  [canonical_name |-> c.canonical_name,
   synonyms |-> IF c.syn = "list" THEN Take(c.synonyms, SynonymsKept) ELSE <<>>]

\* lines 143-155: the field-card chunk
field_card_chunks(p) ==
  IF p.field_cards = <<>> THEN <<>>
  ELSE <<[kind |-> "field_cards",
          body |-> [i \in 1..Len(p.field_cards) |-> reduced_card(p.field_cards[i])]]>>

\* the policy chunk without the test of line 159: every policy entry is kept
policy_chunks_unfiltered(p) ==
  IF p.policies = <<>> THEN <<>> ELSE <<[kind |-> "policies", body |-> p.policies]>>

\* lines 156-162: the policy chunk
policy_chunks(p) ==
  LET small_pol == dict_filter(p.policies, PolicyTags)
  IN  IF small_pol = <<>> THEN <<>> ELSE <<[kind |-> "policies", body |-> small_pol]>>

\* lines 163-167: one chunk for each selected abbreviation card
abbr_chunks(p) ==
  LET sel == dict_filter(p.abbr, {AbbrTag})
  IN  [i \in 1..Len(sel) |-> [kind |-> "abbr", body |-> sel[i].v]]

\* lines 168-175: the ranges chunk
ranges_chunks(p) ==
  LET keep == dict_filter(p.ranges, RangeTags)
  IN  IF keep = <<>> THEN <<>> ELSE <<[kind |-> "ranges", body |-> keep]>>

\* lines 176-180: one chunk for each lexicon slice of the payload
lexicon_chunks(p) ==
  [i \in 1..Len(p.lexicon) |->
     [kind |-> "lexicon",
      body |-> [lexicon_key |-> p.lexicon[i].k,
                entries |-> [j \in 1..Len(p.lexicon[i].v.entries) |->
                               [canonical |-> p.lexicon[i].v.entries[j].canonical,
                                variants |-> p.lexicon[i].v.entries[j].variants]]]]]

\* to_prompt_chunks with the blocks of lines 163-167 and 168-175 exchanged
to_prompt_chunks_ranges_first(p) ==
  field_card_chunks(p) \o policy_chunks(p) \o ranges_chunks(p)
    \o abbr_chunks(p) \o lexicon_chunks(p)

\* to_prompt_chunks(context_payload)
to_prompt_chunks(p) ==
  field_card_chunks(p) \o policy_chunks(p) \o abbr_chunks(p)
    \o ranges_chunks(p) \o lexicon_chunks(p)

(***************************************************************************)
(* RAGStore.load, lines 39-45.  disk is the files under the base           *)
(* directory, orders the glob order of each card directory.  The result is *)
(* the Store after the call and the exception that ended it ("none" when   *)
(* it returned).                                                           *)
(***************************************************************************)
load(st, disk, orders) ==
  IF ~disk.exists
  THEN [store |-> st, raised |-> "FileNotFoundError"]
  ELSE LET fc == load_field_cards(disk.lines)
           fields == [st EXCEPT !.fields_by_name = fc.by_name,
                                !.fields_by_synonym = fc.by_syn]
       IN  IF fc.raised # "none"
           THEN [store |-> fields, raised |-> fc.raised]
           ELSE [store |->
                   [fields EXCEPT
                      !.policy = load_dir(disk.dirs["policy"], orders["policy"], @),
                      !.abbr = load_dir(disk.dirs["abbr"], orders["abbr"], @),
                      !.ranges = load_dir(disk.dirs["range"], orders["range"], @),
                      !.lexicons = load_dir(disk.dirs["lexicon"], orders["lexicon"], @)],
                 raised |-> "none"]

(***************************************************************************)
(* The texts, cards and files the model draws its inputs from.             *)
(***************************************************************************)
K_units == <<"u","n","i","t","s">>
K_misc == <<"m","i","s","c">>
K_derm == <<"d","e","r","m","a","t","o","l","o","g","y">>
K_derm2 == <<"d","e","r","m","a","t","o","l","o","g","y","2">>
K_gen == <<"g","e","n">>
K_labs == <<"l","a","b","s">>
K_other == <<"o","t","h","e","r">>
K_meds == <<"m","e","d","s">>
K_meds2 == <<"m","e","d","s","2">>

\* the base names a *.json file of each directory may have
Stems(d) ==
  CASE d = "policy" -> {K_units, K_misc}
    [] d = "abbr" -> {K_derm, K_gen}
    [] d = "range" -> {K_labs, K_other}
    [] OTHER -> {K_meds, K_other}

\* the card_id a card of each directory may carry
CardId(d) ==
  CASE d = "policy" -> K_other
    [] d = "abbr" -> K_derm2
    [] d = "range" -> K_misc
    [] OTHER -> K_meds2

\* the entries of the lexicon cards
E_tz == [canonical |-> "tacrolimus", variants |-> << <<"T","z">> >>]
E_x == [canonical |-> "levocetirizine", variants |-> << <<"x">>, <<"t","z">> >>]
E_l == [canonical |-> "emollient", variants |-> << <<"L">> >>]
MedsEntries == <<E_tz, E_x, E_l>>

\* the contents a file of a card directory may be given
Contents(d) ==
  IF d = "lexicon"
  THEN {CardFile("invalid", FALSE, <<>>, FALSE, <<>>, ""),
        CardFile("array", FALSE, <<>>, FALSE, <<>>, ""),
        CardFile("object", FALSE, <<>>, FALSE, <<>>, ""),
        CardFile("object", FALSE, <<>>, TRUE, MedsEntries, ""),
        CardFile("object", TRUE, CardId(d), TRUE, <<E_l>>, "")}
  ELSE {CardFile("invalid", FALSE, <<>>, FALSE, <<>>, ""),
        CardFile("array", FALSE, <<>>, FALSE, <<>>, ""),
        CardFile("object", FALSE, <<>>, FALSE, <<>>, "a"),
        CardFile("object", TRUE, CardId(d), FALSE, <<>>, "b")}

\* synonyms as written in the field-card file
S_HL == <<"H","L"," ">>
S_hl == <<"h","l">>
S_d == <<"d">>
S_blank == <<" ">>

\* the lines the field-card file may hold
Lines ==
  {Line("blank", FALSE, "", "missing", <<>>),
   Line("invalid", FALSE, "", "missing", <<>>),
   Line("scalar", FALSE, "", "missing", <<>>),
   Line("object", FALSE, "", "list", <<S_hl>>),
   Line("object", TRUE, "", "list", <<S_d>>),
   Line("object", TRUE, "duration", "list", <<S_HL>>),
   Line("object", TRUE, "duration", "list", <<S_d>>),
   Line("object", TRUE, "treatment_history", "list", <<S_hl, S_blank>>),
   Line("object", TRUE, "followup_visits", "missing", <<>>),
   Line("object", TRUE, "followup_visits", "number", <<>>)}

\* the files the field-card file may be: at most MaxLines lines
LineFiles == UNION {[1..n -> Lines] : n \in 0..MaxLines}

\* a card directory with the given files
Dir(d, files) ==
  [exists |-> TRUE,
   files |-> [s \in Stems(d) |-> IF s \in DOMAIN files THEN files[s] ELSE Absent]]

NoDir(d) == [exists |-> FALSE, files |-> [s \in Stems(d) |-> Absent]]

\* the object {"note": "a"} without card_id, and the lexicon card without card_id
PlainCard(d) ==
  IF d = "lexicon" THEN CardFile("object", FALSE, <<>>, TRUE, MedsEntries, "")
  ELSE CardFile("object", FALSE, <<>>, FALSE, <<>>, "a")

\* the fixture the behaviours of Spec start from: one field card, and in each
\* directory one card, stored under the base name of its file
FirstStem(d) ==
  CASE d = "policy" -> K_units
    [] d = "abbr" -> K_derm
    [] d = "range" -> K_labs
    [] OTHER -> K_meds

Fixture ==
  [exists |-> TRUE,
   lines |-> <<Line("object", TRUE, "duration", "list", <<S_HL>>)>>,
   dirs |-> [d \in DirNames |-> Dir(d, (FirstStem(d) :> PlainCard(d)))]]

(***************************************************************************)
(* The steps.  ret is the outcome of the last step: the operation, its     *)
(* arguments, and what it returned or raised.                              *)
(***************************************************************************)
NoCall == [op |-> "none"]

Edited == [op |-> "edit"]

\* load()
Load ==
  \E orders \in [DirNames -> UNION {GlobOrders(fs.dirs[d]) : d \in DirNames}] :
    /\ \A d \in DirNames : orders[d] \in GlobOrders(fs.dirs[d])
    /\ LET r == load(store, fs, orders)
       IN  /\ store' = r.store
           /\ ret' = [op |-> "load", raised |-> r.raised]
    /\ UNCHANGED <<fs, edits>>

\* the field-card file is written anew
WriteFieldCards ==
  \E lines \in LineFiles :
    /\ edits < MaxEdits
    /\ fs' = [fs EXCEPT !.exists = TRUE, !.lines = lines]
    /\ fs' # fs
    /\ edits' = edits + 1
    /\ ret' = Edited
    /\ UNCHANGED store

\* the field-card file is removed
RemoveFieldCards ==
  /\ edits < MaxEdits
  /\ fs.exists
  /\ fs' = [fs EXCEPT !.exists = FALSE, !.lines = <<>>]
  /\ edits' = edits + 1
  /\ ret' = Edited
  /\ UNCHANGED store

\* a file of a card directory is written, added or removed
WriteCardFile ==
  \E d \in DirNames : \E s \in Stems(d) : \E c \in Contents(d) \cup {Absent} :
    /\ edits < MaxEdits
    /\ fs.dirs[d].exists
    /\ fs.dirs[d].files[s] # c
    /\ fs' = [fs EXCEPT !.dirs[d].files[s] = c]
    /\ edits' = edits + 1
    /\ ret' = Edited
    /\ UNCHANGED store

\* a card directory is removed with its files, or created empty
ToggleDir ==
  \E d \in DirNames :
    /\ edits < MaxEdits
    /\ fs' = [fs EXCEPT !.dirs[d] = IF fs.dirs[d].exists THEN NoDir(d) ELSE Dir(d, EmptyFn)]
    /\ edits' = edits + 1
    /\ ret' = Edited
    /\ UNCHANGED store

Init ==
  /\ fs = Fixture
  /\ store = EmptyStore
  /\ ret = NoCall
  /\ edits = 0

Next == Load \/ WriteFieldCards \/ RemoveFieldCards \/ WriteCardFile \/ ToggleDir

\* a Store, loaded again and again while the files change
Spec == Init /\ [][Next]_vars

(***************************************************************************)
(* What the claims about load() speak of.                                  *)
(***************************************************************************)
\* a dict as the mapping it is, whatever the order of its items
AsMap(d) == [k \in DictKeys(d) |-> DictGet(d, k)]

\* the members of a list
Members(xs) == {xs[i] : i \in 1..Len(xs)}

\* the last step was a load() that returned
Loaded == ret.op = "load" /\ ret.raised = "none"

\* the index of the Store that each card directory is loaded into
IndexOf(st, d) ==
  CASE d = "policy" -> st.policy
    [] d = "abbr" -> st.abbr
    [] d = "range" -> st.ranges
    [] OTHER -> st.lexicons

\* the orders in which glob may yield the files of the four directories
AllOrders(disk) ==
  {o \in [DirNames -> UNION {GlobOrders(disk.dirs[d]) : d \in DirNames}] :
     \A d \in DirNames : o[d] \in GlobOrders(disk.dirs[d])}

\* C1: when the field-card file is missing, load() fails with the not-found
\* condition and none of the six indices holds a card of an earlier load.
C1_NoStaleAfterNotFound ==
  (ret.op = "load" /\ ~fs.exists) =>
     /\ ret.raised = "FileNotFoundError"
     /\ store = EmptyStore

\* C2: after a load() that returned, each of the six indices holds exactly the
\* cards that are on disk, none of an earlier load.
C2_ExactlyTheCardsOnDisk ==
  Loaded =>
    \E o \in AllOrders(fs) :
      LET fresh == load(EmptyStore, fs, o).store
      IN  /\ store.fields_by_name = fresh.fields_by_name
          /\ DOMAIN store.fields_by_synonym = DOMAIN fresh.fields_by_synonym
          /\ \A d \in DirNames : AsMap(IndexOf(store, d)) = AsMap(IndexOf(fresh, d))

\* the synonyms of a stored field card, lowercased and trimmed, blanks left out
CardSynonyms(card) ==
  IF card.syn # "list" THEN {}
  ELSE {lower(strip(card.synonyms[i])) : i \in 1..Len(card.synonyms)} \ {<<>>}

\* C3: after a load() that returned, a synonym s maps to the name n if and only
\* if the field card now stored under n lists s among its synonyms.
C3_SynonymIndexIsExactUnion ==
  Loaded =>
    \A s \in DOMAIN store.fields_by_synonym \cup
             UNION {CardSynonyms(store.fields_by_name[n]) : n \in DOMAIN store.fields_by_name} :
      \A n \in DOMAIN store.fields_by_name \cup
               UNION {Members(store.fields_by_synonym[t]) : t \in DOMAIN store.fields_by_synonym} :
        (s \in DOMAIN store.fields_by_synonym /\ n \in Members(store.fields_by_synonym[s]))
          <=> (n \in DOMAIN store.fields_by_name /\ s \in CardSynonyms(store.fields_by_name[n]))

\* a line that is a record with a canonical name
WellFormedLine(l) == l.text = "object" /\ l.has_name /\ l.canonical_name # "" /\ l.syn # "number"

\* C4: whatever malformed lines and files there are, load() does not raise, and
\* every well-formed line and file is indexed.
C4_MalformedRecordsAreSkipped ==
  (ret.op = "load" /\ fs.exists) =>
     /\ ret.raised = "none"
     /\ \A i \in 1..Len(fs.lines) :
          WellFormedLine(fs.lines[i]) => fs.lines[i].canonical_name \in DOMAIN store.fields_by_name
     /\ \A d \in DirNames : \A f \in DOMAIN fs.dirs[d].files :
          fs.dirs[d].files[f].json = "object" =>
            (IF fs.dirs[d].files[f].has_id THEN fs.dirs[d].files[f].card_id ELSE f)
              \in DictKeys(IndexOf(store, d))

(***************************************************************************)
(* normalize_tokens, applied to every raw text of at most MaxLen           *)
(* characters.                                                             *)
(***************************************************************************)
\* the characters of the raw texts: a letter in both cases, whitespace, a
\* bullet character and the two separators that fit on one line
RawChars == {"a", "A", " ", "-", ",", ";"}

RawInputs == UNION {[1..n -> RawChars] : n \in 0..MaxLen}

\* toks = normalize_tokens(raw)
NormalizeTokens ==
  \E raw \in RawInputs :
    /\ ret' = [op |-> "normalize_tokens", raw |-> raw, toks |-> normalize_tokens(raw)]
    /\ UNCHANGED <<fs, store, edits>>

InitNorm == Init

NextNorm == NormalizeTokens

SpecNorm == InitNorm /\ [][NextNorm]_vars

\* C6: the tokens returned by normalize_tokens hold no duplicate, and joining
\* them with a separator and normalizing again gives the same tokens.
C6_NormalizeIdempotent ==
  ret.op = "normalize_tokens" =>
    /\ \A i, j \in 1..Len(ret.toks) : i # j => ret.toks[i] # ret.toks[j]
    /\ normalize_tokens(join(ret.toks, <<",">>)) = ret.toks

(***************************************************************************)
(* A Store loaded from one of several base directories, and read by its    *)
(* callers in any order.                                                   *)
(***************************************************************************)
\* the field-card file of the base directories: two cards that share a synonym
CtxLines ==
  <<Line("object", TRUE, "duration", "list", <<S_HL>>),
    Line("object", TRUE, "treatment_history", "list", <<S_hl, S_blank>>)>>

IdCard(d) ==
  IF d = "lexicon" THEN CardFile("object", TRUE, CardId(d), TRUE, <<E_l>>, "")
  ELSE CardFile("object", TRUE, CardId(d), FALSE, <<>>, "b")

\* no card that to_prompt_chunks selects, and no lexicon directory
D_bare ==
  [exists |-> TRUE, lines |-> CtxLines,
   dirs |-> [d \in DirNames |->
               CASE d = "policy" -> Dir(d, (K_misc :> PlainCard(d)))
                 [] d = "abbr" -> Dir(d, (K_gen :> PlainCard(d)))
                 [] d = "range" -> Dir(d, (K_other :> PlainCard(d)))
                 [] OTHER -> NoDir(d)]]

\* as D_bare, with the medication lexicon
D_meds == [D_bare EXCEPT !.dirs["lexicon"] = Dir("lexicon", (K_meds :> PlainCard("lexicon")))]

\* as D_bare, with a lexicon card that is the empty object
D_hollow ==
  [D_bare EXCEPT !.dirs["lexicon"] =
     Dir("lexicon", (K_meds :> CardFile("object", FALSE, <<>>, FALSE, <<>>, "")))]

\* cards of every kind that to_prompt_chunks selects: two abbreviation cards
\* with dermatology in their key, and policy and range cards of both sorts
D_full ==
  [exists |-> TRUE, lines |-> CtxLines,
   dirs |-> [d \in DirNames |->
               CASE d = "policy" -> Dir(d, (K_units :> PlainCard(d)) @@ (K_misc :> PlainCard(d)))
                 [] d = "abbr" -> Dir(d, (K_derm :> PlainCard(d)) @@ (K_gen :> IdCard(d)))
                 [] d = "range" -> Dir(d, (K_labs :> PlainCard(d)))
                 [] OTHER -> Dir(d, (K_meds :> PlainCard(d)))]]

CtxDisks == {D_bare, D_meds, D_hollow, D_full}

\* the arguments of the read operations
TargetLists ==
  {<<"unknown_field">>, <<"duration">>, <<"duration", "treatment_history">>,
   <<"duration", "followup_visits">>, <<"treatment_followup_notes", "duration">>}

T_q == <<"q">>
T_tZ == <<"t","Z">>
T_l == <<"l">>

TokenLists == {NoTokens, Tokens(<<T_q>>), Tokens(<<T_tZ>>)}

CueLists == {<<>>, <<<<" ","h","L">>>>, <<S_d>>, <<S_hl, S_d>>}

LexiconKeys == {K_meds, K_other}

TopKs == 0..MaxTopK

\* get_field_cards(names)
GetFieldCards ==
  \E names \in TargetLists :
    /\ ret' = [op |-> "get_field_cards", names |-> names,
               cards |-> get_field_cards(store, names)]
    /\ UNCHANGED <<fs, store, edits>>

\* search_fields_by_synonyms looking the cues up with setdefault(key, []): a cue
\* that is no synonym is entered in the index
SearchFieldsBySynonymsSetdefault ==
  \E cues \in CueLists :
    /\ ret' = [op |-> "search_fields_by_synonyms", cues |-> cues,
               hits |-> search_fields_by_synonyms(store, cues)]
    /\ store' = [store EXCEPT !.fields_by_synonym =
                   [t \in DOMAIN @ \cup {strip(lower(cues[i])) : i \in 1..Len(cues)} |->
                      IF t \in DOMAIN @ THEN @[t] ELSE <<>>]]
    /\ UNCHANGED <<fs, edits>>

\* search_fields_by_synonyms(cues)
SearchFieldsBySynonyms ==
  \E cues \in CueLists :
    /\ ret' = [op |-> "search_fields_by_synonyms", cues |-> cues,
               hits |-> search_fields_by_synonyms(store, cues)]
    /\ UNCHANGED <<fs, store, edits>>

\* slice_lexicon(lexicon_key, include_tokens, top_k)
SliceLexicon ==
  \E key \in LexiconKeys : \E toks \in TokenLists \cup {Tokens(<<>>), Tokens(<<T_q, T_l>>)} :
  \E k \in TopKs :
    /\ ret' = [op |-> "slice_lexicon", lexicon_key |-> key, include_tokens |-> toks,
               top_k |-> k, slice |-> slice_lexicon(store, key, toks, k)]
    /\ UNCHANGED <<fs, store, edits>>

\* the settings of include_abbr, include_policies, include_ranges
FlagSets ==
  {<<TRUE, TRUE, TRUE>>, <<FALSE, FALSE, FALSE>>, <<TRUE, FALSE, FALSE>>,
   <<FALSE, TRUE, TRUE>>}

\* ctx = build_context(target_fields, page_tokens, ...)
BuildContext ==
  \E targets \in TargetLists : \E toks \in TokenLists : \E flags \in FlagSets :
  \E key \in LexiconKeys : \E k \in TopKs :
    /\ ret' = [op |-> "build_context", target_fields |-> targets, page_tokens |-> toks,
               include_abbr |-> flags[1], include_policies |-> flags[2],
               include_ranges |-> flags[3], meds_lexicon_key |-> key, meds_top_k |-> k,
               payload |-> build_context(store, targets, toks, flags[1], flags[2],
                                         flags[3], key, k)]
    /\ UNCHANGED <<fs, store, edits>>

\* chunks = to_prompt_chunks(ctx), for the ctx that build_context just returned
\* (built is that call)
ToPromptChunks ==
  /\ ret.op = "build_context"
  /\ ret' = [op |-> "to_prompt_chunks", built |-> ret,
             chunks |-> to_prompt_chunks(ret.payload)]
  /\ UNCHANGED <<fs, store, edits>>

InitCtx ==
  /\ fs \in CtxDisks
  /\ store = EmptyStore
  /\ ret = NoCall
  /\ edits = 0

NextCtx ==
  Load \/ GetFieldCards \/ SearchFieldsBySynonyms \/ SliceLexicon \/ BuildContext
    \/ ToPromptChunks

SpecCtx == InitCtx /\ [][NextCtx]_vars

(***************************************************************************)
(* What the claims about the read operations speak of.                     *)
(***************************************************************************)
\* the entries of the lexicon card stored under key (none when there is no card)
StoredEntries(key) ==
  IF DictHas(store.lexicons, key) THEN card_entries(DictGet(store.lexicons, key)) ELSE <<>>

\* a variant of entry e equals one of the tokens, case ignored
MatchesToken(e, toks) ==
  \E i \in 1..Len(e.variants) : \E j \in 1..Len(toks) : lower(e.variants[i]) = lower(toks[j])

\* C5: for a non-empty token list that matches no entry, slice_lexicon returns
\* what it returns without tokens, the first top_k entries in stored order (the
\* empty result when the key is absent); when entries match, it returns exactly
\* the matching entries, in stored order, however many.
C5_FallbackEquivalence ==
  (ret.op = "slice_lexicon" /\ ~ret.include_tokens.is_none /\ ret.include_tokens.toks # <<>>) =>
    LET entries == StoredEntries(ret.lexicon_key)
        toks == ret.include_tokens.toks
        Match(e) == MatchesToken(e, toks)
    IN  IF \A i \in 1..Len(entries) : ~Match(entries[i])
        THEN /\ ret.slice = slice_lexicon(store, ret.lexicon_key, NoTokens, ret.top_k)
             /\ ~DictHas(store.lexicons, ret.lexicon_key) => ret.slice = EmptySlice
             /\ ret.slice.entries = Take(entries, ret.top_k)
        ELSE ret.slice.entries = SelectSeq(entries, Match)

\* slice_lexicon fell back: tokens that match nothing, and a card with more than
\* top_k entries, of which the first top_k came back
C5_Witness ==
  /\ ret.op = "slice_lexicon"
  /\ ret.include_tokens = Tokens(<<T_q>>)
  /\ ret.top_k > 0
  /\ Len(StoredEntries(ret.lexicon_key)) > ret.top_k
  /\ Len(ret.slice.entries) = ret.top_k

\* the place of each kind of chunk in the fixed order
Rank(kind) ==
  CASE kind = "field_cards" -> 1
    [] kind = "policies" -> 2
    [] kind = "abbr" -> 3
    [] kind = "ranges" -> 4
    [] OTHER -> 5

\* C7: the chunks come in the order field cards, policy, abbreviation, ranges,
\* lexicon, with at most one field-card, one policy and one ranges chunk.
C7_ChunkOrder ==
  ret.op = "to_prompt_chunks" =>
    /\ \A i, j \in 1..Len(ret.chunks) :
         i < j => Rank(ret.chunks[i].kind) <= Rank(ret.chunks[j].kind)
    /\ \A kind \in {"field_cards", "policies", "ranges"} :
         Cardinality({i \in 1..Len(ret.chunks) : ret.chunks[i].kind = kind}) <= 1

\* chunks of all five kinds, two of them abbreviation chunks
C7_Witness ==
  /\ ret.op = "to_prompt_chunks"
  /\ {ret.chunks[i].kind : i \in 1..Len(ret.chunks)}
       = {"field_cards", "policies", "abbr", "ranges", "lexicon"}
  /\ Cardinality({i \in 1..Len(ret.chunks) : ret.chunks[i].kind = "abbr"}) = 2

\* no key of d contains one of the tags
NoKeyWith(d, tags) == \A k \in DictKeys(d) : \A t \in tags : ~Contains(t, k)

\* a payload of one field card and no policy, abbreviation or range entry that
\* to_prompt_chunks selects
OneCardOnly(p) ==
  /\ Len(p.field_cards) = 1
  /\ NoKeyWith(p.policies, PolicyTags)
  /\ NoKeyWith(p.abbr, {AbbrTag})
  /\ NoKeyWith(p.ranges, RangeTags)

\* one of the three treatment and follow-up names is among the target fields
WantsMeds(targets) == \E i \in 1..Len(targets) : targets[i] \in MedsFields

\* C8, as claimed: a payload of build_context with one field card and no
\* qualifying policy, abbreviation or range entry gives exactly one chunk,
\* whatever the target fields.
C8_ExactlyOneChunk ==
  (ret.op = "to_prompt_chunks" /\ OneCardOnly(ret.built.payload)) => Len(ret.chunks) = 1

\* C8, amended: such a payload gives the field-card chunk alone when the target
\* fields hold none of the three treatment and follow-up names, and the
\* field-card chunk followed by one lexicon chunk when they hold one, also when
\* the store has no card under the lexicon key.
C8_OneChunkPlusLexicon ==
  (ret.op = "to_prompt_chunks" /\ OneCardOnly(ret.built.payload)) =>
    /\ ret.chunks[1].kind = "field_cards"
    /\ IF WantsMeds(ret.built.target_fields)
       THEN Len(ret.chunks) = 2 /\ ret.chunks[2].kind = "lexicon"
       ELSE Len(ret.chunks) = 1

\* one field card, entries of the policy, abbreviation and range mappings that
\* do not qualify, a follow-up field among the targets and no lexicon card
\* under the key: two chunks
C8_Witness ==
  /\ ret.op = "to_prompt_chunks"
  /\ OneCardOnly(ret.built.payload)
  /\ ret.built.payload.policies # <<>>
  /\ ret.built.payload.abbr # <<>>
  /\ ret.built.payload.ranges # <<>>
  /\ "followup_visits" \in Members(ret.built.target_fields)
  /\ ~DictHas(store.lexicons, ret.built.meds_lexicon_key)
  /\ Len(ret.chunks) = 2

\* C9: the lexicon mapping of the payload is empty when target_fields holds
\* none of the three names, and otherwise holds one entry, under
\* meds_lexicon_key, equal to slice_lexicon(meds_lexicon_key, page_tokens,
\* meds_top_k).
C9_LexiconOnlyForMedsFields ==
  ret.op = "build_context" =>
    /\ Len(ret.payload.lexicon) <= 1
    /\ IF Members(ret.target_fields)
            \cap {"treatment_history", "followup_visits", "treatment_followup_notes"} = {}
       THEN ret.payload.lexicon = <<>>
       ELSE /\ DictKeys(ret.payload.lexicon) = {ret.meds_lexicon_key}
            /\ ret.payload.lexicon[1].v =
                 slice_lexicon(store, ret.meds_lexicon_key, ret.page_tokens, ret.meds_top_k)

\* a payload for target fields whose second name is a follow-up field, with a
\* lexicon slice of matching entries
C9_Witness ==
  /\ ret.op = "build_context"
  /\ ret.target_fields = <<"duration", "followup_visits">>
  /\ ret.page_tokens = Tokens(<<T_tZ>>)
  /\ Len(ret.payload.lexicon) = 1
  /\ Len(ret.payload.lexicon[1].v.entries) = 2

\* the operations that only read the Store
ReadOps ==
  {"get_field_cards", "search_fields_by_synonyms", "slice_lexicon", "build_context",
   "to_prompt_chunks"}

\* C10: a step of get_field_cards, search_fields_by_synonyms, slice_lexicon,
\* build_context or to_prompt_chunks leaves the six indices as they were.
C10_ReadsLeaveStore == [][ret'.op \in ReadOps => store' = store]_vars

\* a loaded Store with cards in all six indices, read by to_prompt_chunks after
\* build_context
C10_Witness ==
  /\ ret.op = "to_prompt_chunks"
  /\ DOMAIN store.fields_by_name # {}
  /\ DOMAIN store.fields_by_synonym # {}
  /\ \A d \in DirNames : IndexOf(store, d) # <<>>

====
